---- MODULE Spec2Model ----
(***************************************************************************)
(* A model of acr_cleaner.py: one run of main(), from argument parsing     *)
(* through the scan of the registry (fetch_obsolete_images) to the         *)
(* deletion loop (delete_obsolete_images) and the final usage report.      *)
(*                                                                         *)
(* Strings that the program inspects character by character (image ids,    *)
(* repository names, digests, the registry URI) are sequences of           *)
(* one-character strings, so that concatenation, split, startswith,        *)
(* removeprefix and the IMAGE_ID_PATTERN match are computed, not assumed.   *)
(*                                                                         *)
(* The registry, the azure CLI and the clock are the environment: the      *)
(* registry yields repositories and manifests on demand, delete_manifest   *)
(* and the CLI calls succeed or fail nondeterministically.                 *)
(***************************************************************************)
EXTENDS Integers, Sequences, FiniteSets, TLC

VARIABLES
    argv,               \* the process-level inputs handed to main()
    pc,                 \* position of main(): see PcValues
    error,              \* what ended the run abnormally ("" while none)
    exit_code,          \* value given to sys.exit (-1 while running or after a raise)
    registry_uri,       \* main: registry_uri
    max_image_age_days, \* main: max_image_age_days (after the cleanup_all override)
    deployed_images,    \* Arguments.deployed_images
    repos_seen,         \* repositories list_repository_names() has yielded so far
    repository,         \* fetch_obsolete_images: loop variable `repository`
    digests_seen,       \* digests list_manifest_properties(repository) has yielded
    yielded,            \* number of manifests the registry has yielded in this run
    manifest,           \* fetch_obsolete_images: loop variable `manifest` (None before the first)
    images_in_use,      \* fetch_obsolete_images: images_in_use
    obsolete_images,    \* fetch_obsolete_images / main: obsolete_images
    dangling_images,    \* main: dangling_images
    unused_images,      \* main: unused_images
    next_image,         \* delete_obsolete_images: index of the next image of the for loop
    events              \* collaborator calls and deletion reports, in the order made

vars == <<argv, pc, error, exit_code, registry_uri, max_image_age_days, deployed_images,
          repos_seen, repository, digests_seen, yielded, manifest, images_in_use,
          obsolete_images, dangling_images, unused_images, next_image, events>>

-----------------------------------------------------------------------------
(* Bounds of the model.                                                    *)

\* Number of repositories the registry holds at most.
MaxRepos == 2
\* Number of manifests the registry yields at most in one run.
MaxManifests == 2
\* The largest MAX_IMAGE_AGE argument tried.
MaxAgeDays == 1

-----------------------------------------------------------------------------
(* Python values.                                                          *)

\* Optional values: None is the empty sequence, Some(v) the one-element one.
None == <<>>
Some(v) == <<v>>

\* bool(x) of an optional list: None and [] are falsy.
Truthy(x) == x # None /\ x[1] # <<>>

\* c repeated n times.
Repeat(c, n) == [k \in 1..n |-> c]

\* str.startswith
StartsWith(s, prefix) ==
    Len(s) >= Len(prefix) /\ SubSeq(s, 1, Len(prefix)) = prefix

\* str.removeprefix
RemovePrefix(s, prefix) ==
    IF StartsWith(s, prefix) THEN SubSeq(s, Len(prefix) + 1, Len(s)) ELSE s

\* str.split(sep) for a one-character separator: one field more than there
\* are separators, so the empty string splits into one empty field.
Split(s, sep) ==
    LET at == {k \in 1..Len(s) : s[k] = sep}
        \* position of the j-th separator; 0 and Len(s) + 1 close the ends
        cut(j) == IF j = 0 THEN 0
                  ELSE IF j > Cardinality(at) THEN Len(s) + 1
                  ELSE CHOOSE k \in at : Cardinality({x \in at : x < k}) = j - 1
    IN  [j \in 1..(Cardinality(at) + 1) |-> SubSeq(s, cut(j - 1) + 1, cut(j) - 1)]

\* The elements of a sequence.
Range(s) == {s[k] : k \in 1..Len(s)}

-----------------------------------------------------------------------------
(* Program constants.                                                      *)

Https == <<"h", "t", "t", "p", "s", ":", "/", "/">>
AzurecrIo == <<".", "a", "z", "u", "r", "e", "c", "r", ".", "i", "o">>
HelmChartsPrefix == <<"h", "e", "l", "m", "-", "c", "h", "a", "r", "t", "s">>

\* "ingress-nginx/kube-webhook-certgen"
JobRepo ==
    <<"i", "n", "g", "r", "e", "s", "s", "-", "n", "g", "i", "n", "x", "/", "k", "u", "b",
      "e", "-", "w", "e", "b", "h", "o", "o", "k", "-", "c", "e", "r", "t", "g", "e", "n">>

REPOS_WITH_JOB_IMAGES == <<JobRepo>>

\* The character classes of IMAGE_ID_PATTERN.
Lower ==
    {"a", "b", "c", "d", "e", "f", "g", "h", "i", "j", "k", "l", "m", "n", "o", "p", "q",
     "r", "s", "t", "u", "v", "w", "x", "y", "z"}
Digit == {"0", "1", "2", "3", "4", "5", "6", "7", "8", "9"}
\* [a-z0-9-/]
RepositoryChars == Lower \cup Digit \cup {"-", "/"}
\* [sha256:] is a character class, not the literal prefix.
DigestPrefixChars == {"s", "h", "a", "2", "5", "6", ":"}
\* [a-fA-F0-9]
HexChars == {"a", "b", "c", "d", "e", "f", "A", "B", "C", "D", "E", "F"} \cup Digit
\* {64}
HexLen == 64

(* IMAGE_ID_PATTERN as a nondeterministic automaton. State q is the number *)
(* of pattern items already matched, a repeated item counting once:        *)
(*   0 -[a-z]+-> 1 -.-> 2 -[a-z]+-> 3 -.-> 4 -[a-z]-> 5 -.-> 6 -/-> 7      *)
(*   7 -[a-z0-9-/]+-> 8 -@-> 9 -[sha256:]+-> 10 -hex-> 11 ... 10 + HexLen  *)
(* `.` matches every character but a newline.                              *)
PatternStep(q, c) ==
    CASE q > 10 /\ q < 10 + HexLen -> IF c \in HexChars THEN {q + 1} ELSE {}
      [] q = 0 -> IF c \in Lower THEN {1} ELSE {}
      [] q = 1 -> (IF c \in Lower THEN {1} ELSE {}) \cup (IF c # "\n" THEN {2} ELSE {})
      [] q = 2 -> IF c \in Lower THEN {3} ELSE {}
      [] q = 3 -> (IF c \in Lower THEN {3} ELSE {}) \cup (IF c # "\n" THEN {4} ELSE {})
      [] q = 4 -> IF c \in Lower THEN {5} ELSE {}
      [] q = 5 -> IF c # "\n" THEN {6} ELSE {}
      [] q = 6 -> IF c = "/" THEN {7} ELSE {}
      [] q = 7 -> IF c \in RepositoryChars THEN {8} ELSE {}
      [] q = 8 -> (IF c \in RepositoryChars THEN {8} ELSE {}) \cup (IF c = "@" THEN {9} ELSE {})
      [] q = 9 -> IF c \in DigestPrefixChars THEN {10} ELSE {}
      [] q = 10 -> (IF c \in DigestPrefixChars THEN {10} ELSE {})
                     \cup (IF c \in HexChars THEN {11} ELSE {})
      [] OTHER -> {}

\* The automaton's states after reading s[lo..hi] from the states in `from`.
RECURSIVE PatternRun(_, _, _, _)
PatternRun(from, s, lo, hi) ==
    IF lo > hi THEN from
    ELSE IF lo = hi THEN UNION {PatternStep(q, s[lo]) : q \in from}
    ELSE LET mid == (lo + hi) \div 2
             left == PatternRun(from, s, lo, mid)
         IN  IF left = {} THEN {} ELSE PatternRun(left, s, mid + 1, hi)

\* IMAGE_ID_PATTERN.match(s) is not None. `$` matches at the end of the
\* string and also just before a newline that ends it.
IMAGE_ID_PATTERN_match(s) ==
    \/ (10 + HexLen) \in PatternRun({0}, s, 1, Len(s))
    \/ /\ Len(s) > 0
       /\ s[Len(s)] = "\n"
       /\ (10 + HexLen) \in PatternRun({0}, s, 1, Len(s) - 1)

\* is_exception_repository
is_exception_repository_PrefixOnly(repo) == StartsWith(repo, HelmChartsPrefix)

is_exception_repository(repo) ==
    StartsWith(repo, HelmChartsPrefix) \/ repo \in Range(REPOS_WITH_JOB_IMAGES)

\* Image.__post_init__: the derived field.
Image(repo, tags, digest, age) ==
    [repository |-> repo, tags |-> tags, digest |-> digest, age |-> age,
     is_dangling |-> Truthy(tags)]

-----------------------------------------------------------------------------
(* Inputs: the registry's content and the command line.                    *)

RegistryName == <<"m", "y", "r", "e", "g">>
HelmRepo == <<"h", "e", "l", "m", "-", "c", "h", "a", "r", "t", "s", "/", "w", "e", "b">>
E2eRepo == <<"e", "2", "e", "-", "t", "e", "s", "t", "s", "/", "a", "p", "i">>
AppRepo == <<"a", "p", "p", "/", "w", "e", "b">>
\* A repository name the registry accepts and IMAGE_ID_PATTERN does not.
BadRepo == <<"a", "p", "p", "_", "a", "p", "i">>
RepoNames == {AppRepo, E2eRepo, HelmRepo, JobRepo, BadRepo}

Sha256Prefix == <<"s", "h", "a", "2", "5", "6", ":">>
Digest0 == Sha256Prefix \o Repeat("0", HexLen)
Digest1 == Sha256Prefix \o Repeat("a", HexLen)
\* The digests of a repository's manifests, in the order the registry lists them.
DigestsListed == <<Digest0, Digest1>>
Digests == Range(DigestsListed)

TagLists == {None, Some(<<>>), Some(<<"v1">>)}

(* A timedelta is [days, rest]: whole days (timedelta.days) and whether    *)
(* seconds or microseconds remain beyond them. A manifest's                *)
(* last_updated_on is represented by its distance from the clock reading   *)
(* `today` taken in the manifest's own iteration.                          *)
TimeDeltas == [days : {0, MaxAgeDays}, rest : BOOLEAN]

\* timedelta(days=n)
timedelta(n) == [days |-> n, rest |-> FALSE]

\* a > b on timedeltas
TimedeltaGreater_OrEqual(a, b) == a.days > b.days \/ (a.days = b.days /\ (a.rest \/ ~b.rest))

TimedeltaGreater(a, b) == a.days > b.days \/ (a.days = b.days /\ a.rest /\ ~b.rest)

Manifests == [tags : TagLists, digest : Digests, last_updated_on : TimeDeltas]

\* The identifier of an image of this registry, as the deployment tooling writes it.
ImageId(repo, digest) == RegistryName \o AzurecrIo \o <<"/">> \o repo \o <<"@">> \o digest

NotAnId == <<"n", "o", "t", "-", "a", "n", "-", "i", "d">>

\* The DEPLOYED_IMAGES argument: one good list, one with a malformed entry,
\* and the empty argument (which splits into one empty entry).
DeployedArgs ==
    { ImageId(AppRepo, Digest0) \o <<",">> \o ImageId(HelmRepo, Digest0),
      ImageId(AppRepo, Digest0) \o <<",">> \o NotAnId,
      <<>> }

\* The command line and environment. count_ok: five arguments and no help
\* flag; env_ok: the required environment variables are set. MAX_IMAGE_AGE
\* and CLEANUP_ALL are well-formed literals; MAX_IMAGE_AGE is 0 or
\* MaxAgeDays, and CLEANUP_ALL is tried with the latter, where it changes
\* the threshold.
Argvs ==
    {a \in [count_ok : BOOLEAN, env_ok : BOOLEAN, registry_name : {RegistryName},
            max_image_age : {0, MaxAgeDays}, deployed_images : DeployedArgs,
            cleanup_all : BOOLEAN] :
        a.cleanup_all => a.max_image_age = MaxAgeDays}


-----------------------------------------------------------------------------
(* The pieces of the handlers that the actions below are built from.       *)

\* IMAGE_ID_PATTERN is compiled once, when the module is loaded. Likewise
\* the match is computed once for each string the inputs above can put
\* before it, and looked up afterwards; any other string is matched afresh.
PatternInputs ==
    {ImageId(repo, digest) : repo \in RepoNames, digest \in Digests}
        \cup UNION {Range(Split(a, ",")) : a \in DeployedArgs}

PatternMatches == {s \in PatternInputs : IMAGE_ID_PATTERN_match(s)}

\* validate_image_id: TRUE when it returns, FALSE when it raises RuntimeError.
validate_image_id_NeverRaises(image_id) == TRUE

validate_image_id(image_id) ==
    IF image_id \in PatternInputs
    THEN image_id \in PatternMatches
    ELSE IMAGE_ID_PATTERN_match(image_id)

\* parse_args: the loop that validates every supplied deployed image id.
deployed_images_valid_Unchecked(deployed) == TRUE

deployed_images_valid(deployed) ==
    \A k \in 1..Len(deployed) : validate_image_id(deployed[k])

\* main: the threshold used, after the cleanup_all override.
effective_max_age(cleanup_all, max_age) == IF cleanup_all THEN 0 ELSE max_age

\* fetch_obsolete_images: the condition under which a manifest is looked at.
\* `age` is today - image_last_update.
is_candidate_AtLeast(tags, age, max_days) ==
    tags = None \/ TimedeltaGreater_OrEqual(age, timedelta(max_days))

is_candidate(tags, age, max_days) ==
    tags = None \/ TimedeltaGreater(age, timedelta(max_days))

\* fetch_obsolete_images: the image id synthesized for a manifest.
synthesized_image_id(uri, repo, digest) ==
    RemovePrefix(uri, Https) \o <<"/">> \o repo \o <<"@">> \o digest

\* fetch_obsolete_images: `image_id in deployed_images`.
is_deployed(image_id, deployed) == image_id \in Range(deployed)

\* delete_obsolete_images: what one iteration emits, in order: the report
\* of the attempt, then the delete_manifest call (ok: whether it returned).
delete_iteration_CallFirst(image, ok) ==
    << [kind |-> "delete_manifest", repository |-> image.repository,
        digest |-> image.digest, ok |-> ok],
       [kind |-> "deleting_image", repository |-> image.repository, tags |-> image.tags,
        digest |-> image.digest, age |-> image.age] >>

delete_iteration(image, ok) ==
    << [kind |-> "deleting_image", repository |-> image.repository, tags |-> image.tags,
        digest |-> image.digest, age |-> image.age],
       [kind |-> "delete_manifest", repository |-> image.repository,
        digest |-> image.digest, ok |-> ok] >>

IsDangling(image) == image.is_dangling
IsNotDangling(image) == ~image.is_dangling

-----------------------------------------------------------------------------
(* The state machine.                                                      *)

PcValues ==
    {"start", "fetch", "repositories", "manifests", "login", "usage_before", "delete",
     "exited", "failed"}

Init ==
    /\ argv \in Argvs
    /\ pc = "start"
    /\ error = ""
    /\ exit_code = -1
    /\ registry_uri = <<>>
    /\ max_image_age_days = 0
    /\ deployed_images = <<>>
    /\ repos_seen = <<>>
    /\ repository = <<>>
    /\ digests_seen = {}
    /\ yielded = 0
    /\ manifest = None
    /\ images_in_use = <<>>
    /\ obsolete_images = <<>>
    /\ dangling_images = <<>>
    /\ unused_images = <<>>
    /\ next_image = 0
    /\ events = <<>>

\* An exception leaves main(): the interpreter prints it, nothing else runs.
Raise(what) ==
    /\ pc' = "failed"
    /\ error' = what

\* main up to the creation of the registry client, parse_args included.
main_parse_args ==
    /\ pc = "start"
    /\ IF ~argv.count_ok
       THEN /\ pc' = "exited"
            /\ exit_code' = 1
            /\ error' = "usage"
            /\ UNCHANGED <<registry_uri, max_image_age_days, deployed_images>>
       ELSE IF ~argv.env_ok
       THEN /\ Raise("environment variable not set")
            /\ UNCHANGED <<exit_code, registry_uri, max_image_age_days, deployed_images>>
       ELSE LET deployed == Split(argv.deployed_images, ",")
            IN  IF ~deployed_images_valid(deployed)
                THEN /\ Raise("deployed image id not valid")
                     /\ UNCHANGED <<exit_code, registry_uri, max_image_age_days,
                                    deployed_images>>
                ELSE /\ deployed_images' = deployed
                     /\ registry_uri' = Https \o argv.registry_name \o AzurecrIo
                     /\ max_image_age_days' =
                            effective_max_age(argv.cleanup_all, argv.max_image_age)
                     /\ pc' = "fetch"
                     /\ UNCHANGED <<error, exit_code>>
    /\ UNCHANGED <<argv, repos_seen, repository, digests_seen, yielded, manifest,
                   images_in_use, obsolete_images, dangling_images, unused_images,
                   next_image, events>>

\* fetch_obsolete_images up to the call of list_repository_names().
fetch_obsolete_images_begin ==
    /\ pc = "fetch"
    /\ images_in_use' = <<>>
    /\ obsolete_images' = <<>>
    /\ events' = Append(events, [kind |-> "list_repository_names"])
    /\ pc' = "repositories"
    /\ UNCHANGED <<argv, error, exit_code, registry_uri, max_image_age_days,
                   deployed_images, repos_seen, repository, digests_seen, yielded,
                   manifest, dangling_images, unused_images, next_image>>

\* The outer loop takes the next repository; unless it is an exception
\* repository, its manifests are requested.
fetch_next_repository ==
    /\ pc = "repositories"
    /\ Len(repos_seen) < MaxRepos
    /\ \E repo \in RepoNames \ Range(repos_seen) :
        /\ repos_seen' = Append(repos_seen, repo)
        /\ repository' = repo
        /\ digests_seen' = {}
        /\ IF is_exception_repository(repo)
           THEN UNCHANGED <<pc, events>>
           ELSE /\ pc' = "manifests"
                /\ events' = Append(events, [kind |-> "list_manifest_properties",
                                             repository |-> repo])
    /\ UNCHANGED <<argv, error, exit_code, registry_uri, max_image_age_days,
                   deployed_images, yielded, manifest, images_in_use, obsolete_images,
                   dangling_images, unused_images, next_image>>

\* One iteration of the inner loop: the registry yields a manifest and the
\* loop body classifies it.
fetch_next_manifest ==
    /\ pc = "manifests"
    /\ yielded < MaxManifests
    /\ \E m \in Manifests :
        /\ Cardinality(digests_seen) < Len(DigestsListed)
        /\ m.digest = DigestsListed[Cardinality(digests_seen) + 1]
        /\ manifest' = Some(m)
        /\ digests_seen' = digests_seen \cup {m.digest}
        /\ LET age == m.last_updated_on
               image_age_days == age.days
               image_id == synthesized_image_id(registry_uri, repository, m.digest)
               image == Image(repository, m.tags, m.digest, image_age_days)
           IN  IF ~is_candidate(m.tags, age, max_image_age_days)
               THEN UNCHANGED <<pc, error, images_in_use, obsolete_images>>
               ELSE IF ~validate_image_id(image_id)
               THEN /\ Raise("image id not valid")
                    /\ UNCHANGED <<images_in_use, obsolete_images>>
               ELSE IF is_deployed(image_id, deployed_images)
               THEN /\ images_in_use' = Append(images_in_use, image)
                    /\ UNCHANGED <<pc, error, obsolete_images>>
               ELSE /\ obsolete_images' = Append(obsolete_images, image)
                    /\ UNCHANGED <<pc, error, images_in_use>>
    /\ yielded' = yielded + 1
    /\ UNCHANGED <<argv, exit_code, registry_uri, max_image_age_days, deployed_images,
                   repos_seen, repository, dangling_images, unused_images, next_image,
                   events>>

\* The manifests of the repository are exhausted.
fetch_end_of_manifests ==
    /\ pc = "manifests"
    /\ pc' = "repositories"
    /\ UNCHANGED <<argv, error, exit_code, registry_uri, max_image_age_days,
                   deployed_images, repos_seen, repository, digests_seen, yielded,
                   manifest, images_in_use, obsolete_images, dangling_images,
                   unused_images, next_image, events>>

\* The repositories are exhausted: fetch_obsolete_images reports the images
\* in use and returns obsolete_images; main stops when there are none and
\* otherwise counts the dangling and the unused ones.
fetch_return ==
    /\ pc = "repositories"
    /\ IF obsolete_images = <<>>
       THEN /\ pc' = "exited"
            /\ exit_code' = 0
            /\ UNCHANGED <<dangling_images, unused_images>>
       ELSE /\ dangling_images' = SelectSeq(obsolete_images, IsDangling)
            /\ unused_images' = SelectSeq(obsolete_images, IsNotDangling)
            /\ pc' = "login"
            /\ UNCHANGED exit_code
    /\ UNCHANGED <<argv, error, registry_uri, max_image_age_days, deployed_images,
                   repos_seen, repository, digests_seen, yielded, manifest,
                   images_in_use, obsolete_images, next_image, events>>

\* login_to_azure; a failed az command ends in an exception (run_os_command
\* returns a variable it never bound).
login_to_azure ==
    /\ pc = "login"
    /\ events' = Append(events, [kind |-> "login_to_azure"])
    /\ \E ok \in BOOLEAN :
        IF ok THEN pc' = "usage_before" /\ UNCHANGED error
              ELSE Raise("az command failed")
    /\ UNCHANGED <<argv, exit_code, registry_uri, max_image_age_days, deployed_images,
                   repos_seen, repository, digests_seen, yielded, manifest,
                   images_in_use, obsolete_images, dangling_images, unused_images,
                   next_image>>

\* get_registry_usage before the cleanup.
get_registry_usage_before ==
    /\ pc = "usage_before"
    /\ events' = Append(events, [kind |-> "get_registry_usage"])
    /\ \E ok \in BOOLEAN :
        IF ok THEN pc' = "delete" /\ next_image' = 1 /\ UNCHANGED error
              ELSE Raise("az command failed") /\ UNCHANGED next_image
    /\ UNCHANGED <<argv, exit_code, registry_uri, max_image_age_days, deployed_images,
                   repos_seen, repository, digests_seen, yielded, manifest,
                   images_in_use, obsolete_images, dangling_images, unused_images>>

\* One iteration of the loop of delete_obsolete_images. An exception of
\* delete_manifest is caught nowhere.
delete_obsolete_images_next ==
    /\ pc = "delete"
    /\ next_image <= Len(obsolete_images)
    /\ \E ok \in BOOLEAN :
        /\ events' = events \o delete_iteration(obsolete_images[next_image], ok)
        /\ IF ok THEN next_image' = next_image + 1 /\ UNCHANGED <<pc, error>>
                 ELSE Raise("delete_manifest failed") /\ UNCHANGED next_image
    /\ UNCHANGED <<argv, exit_code, registry_uri, max_image_age_days, deployed_images,
                   repos_seen, repository, digests_seen, yielded, manifest,
                   images_in_use, obsolete_images, dangling_images, unused_images>>

\* The loop is over: get_registry_usage after the cleanup, the report of the
\* storage released, and the end of main.
get_registry_usage_after ==
    /\ pc = "delete"
    /\ next_image > Len(obsolete_images)
    /\ events' = Append(events, [kind |-> "get_registry_usage"])
    /\ \E ok \in BOOLEAN :
        IF ok THEN pc' = "exited" /\ exit_code' = 0 /\ UNCHANGED error
              ELSE Raise("az command failed") /\ UNCHANGED exit_code
    /\ UNCHANGED <<argv, registry_uri, max_image_age_days, deployed_images, repos_seen,
                   repository, digests_seen, yielded, manifest, images_in_use,
                   obsolete_images, dangling_images, unused_images, next_image>>

Next ==
    \/ main_parse_args
    \/ fetch_obsolete_images_begin
    \/ fetch_next_repository
    \/ fetch_next_manifest
    \/ fetch_end_of_manifests
    \/ fetch_return
    \/ login_to_azure
    \/ get_registry_usage_before
    \/ delete_obsolete_images_next
    \/ get_registry_usage_after

Spec == Init /\ [][Next]_vars

TypeOK ==
    /\ pc \in PcValues
    /\ yielded \in 0..MaxManifests
    /\ Len(repos_seen) <= MaxRepos
    /\ next_image \in 0..(Len(obsolete_images) + 1)

-----------------------------------------------------------------------------
(* Vocabulary of the properties, written from the specification's terms    *)
(* and independently of the operators the actions use.                     *)

\* The pair (repository, manifest) is the one the loop body last ran on.
JustScanned == manifest # None /\ manifest[1].digest \in digests_seen

\* No tags: the tag list is empty or absent.
NoTags(tags) == tags = None \/ tags = Some(<<>>)

\* The age strictly exceeds max_days, by the full timestamp difference.
OverAge(age, max_days) == age.days > max_days \/ (age.days = max_days /\ age.rest)

\* Eligible for deletion consideration: dangling or over-age.
Eligible(m, max_days) == NoTags(m.tags) \/ OverAge(m.last_updated_on, max_days)

\* <registryHost>/<repository>@<digest>
CanonicalId(repo, digest) ==
    argv.registry_name \o AzurecrIo \o <<"/">> \o repo \o <<"@">> \o digest

Deployed(repo, digest) ==
    \E k \in 1..Len(deployed_images) : deployed_images[k] = CanonicalId(repo, digest)

Listed(list, repo, digest) ==
    \E k \in 1..Len(list) : list[k].repository = repo /\ list[k].digest = digest

IsReport(e) == e.kind = "deleting_image"
IsDeleteCall(e) == e.kind = "delete_manifest"
Reports == SelectSeq(events, IsReport)
DeleteCalls == SelectSeq(events, IsDeleteCall)

DeleteCalled(repo, digest) ==
    \E k \in 1..Len(DeleteCalls) :
        DeleteCalls[k].repository = repo /\ DeleteCalls[k].digest = digest

\* The repositories is_exception_repository exempts: the helm-charts prefix
\* and the job-image repository.
ExemptHelmOrJob(repo) ==
    \/ (Len(repo) >= Len(HelmChartsPrefix)
        /\ \A k \in 1..Len(HelmChartsPrefix) : repo[k] = HelmChartsPrefix[k])
    \/ repo = JobRepo

E2eTestsPrefix == <<"e", "2", "e", "-", "t", "e", "s", "t", "s">>

\* The exemption as the specification words it: the prefixes helm-charts
\* and e2e-tests, or the job-image set.
ExemptWithE2e(repo) ==
    \/ ExemptHelmOrJob(repo)
    \/ (Len(repo) >= Len(E2eTestsPrefix)
        /\ \A k \in 1..Len(E2eTestsPrefix) : repo[k] = E2eTestsPrefix[k])

\* The DEPLOYED_IMAGES arguments of the input set with an entry that fails
\* the image id pattern.
MalformedDeployedArgs ==
    {a \in DeployedArgs : \E s \in Range(Split(a, ",")) : ~IMAGE_ID_PATTERN_match(s)}

\* The identifiers of the registry's possible images that fail the pattern.
MalformedImageIds ==
    {id \in {ImageId(repo, digest) : repo \in RepoNames, digest \in Digests} :
        ~IMAGE_ID_PATTERN_match(id)}

-----------------------------------------------------------------------------
(* The claims.                                                             *)

\* C1: every manifest that is eligible (dangling, i.e. without tags, or
\* over-age) and whose canonical identifier is in the deployed set is in the
\* in-use list, not in the obsolete list, and delete_manifest is never
\* called for it.
C1_DeployedEligibleIsProtected ==
    (/\ JustScanned
     /\ Eligible(manifest[1], max_image_age_days)
     /\ Deployed(repository, manifest[1].digest))
    => /\ Listed(images_in_use, repository, manifest[1].digest)
       /\ ~Listed(obsolete_images, repository, manifest[1].digest)
       /\ ~DeleteCalled(repository, manifest[1].digest)

\* C2: a manifest whose tags are empty or absent is eligible whatever its
\* age: once the loop body has run on it (its identifier being well-formed), its
\* image is in the obsolete list when not deployed and in the in-use list
\* when deployed.
C2_NoTagsAlwaysEligible ==
    (/\ JustScanned
     /\ NoTags(manifest[1].tags)
     /\ CanonicalId(repository, manifest[1].digest) \notin MalformedImageIds)
    => IF Deployed(repository, manifest[1].digest)
       THEN Listed(images_in_use, repository, manifest[1].digest)
       ELSE Listed(obsolete_images, repository, manifest[1].digest)

\* C3: every constructed Image has is_dangling true exactly when its tags
\* are empty or absent, and main's dangling_images / unused_images are the
\* untagged / tagged obsolete images.
C3_IsDanglingIffNoTags ==
    /\ \A k \in 1..Len(obsolete_images) :
           obsolete_images[k].is_dangling <=> NoTags(obsolete_images[k].tags)
    /\ \A k \in 1..Len(images_in_use) :
           images_in_use[k].is_dangling <=> NoTags(images_in_use[k].tags)
    /\ \A k \in 1..Len(dangling_images) : NoTags(dangling_images[k].tags)
    /\ \A k \in 1..Len(unused_images) : ~NoTags(unused_images[k].tags)

\* C4: when a delete call fails, the images after it in the obsolete list
\* still have their delete call attempted: a run that has ended with a
\* failed delete call has called delete_manifest for every obsolete image.
C4_DeleteFailureDoesNotStopTheBatch ==
    (/\ pc \in {"exited", "failed"}
     /\ \E k \in 1..Len(DeleteCalls) : ~DeleteCalls[k].ok)
    => Len(DeleteCalls) = Len(obsolete_images)

C6_ZeroMaxAgeTakesEveryTaggedImage ==
    (/\ JustScanned
     /\ max_image_age_days = 0
     /\ ~NoTags(manifest[1].tags)
     /\ ~Deployed(repository, manifest[1].digest)
     /\ ~ExemptWithE2e(repository)
     /\ CanonicalId(repository, manifest[1].digest) \notin MalformedImageIds)
    => Listed(obsolete_images, repository, manifest[1].digest)

\* C7 as stated: no image of a repository that starts with helm-charts or
\* e2e-tests, or that is in the job-image set, is in either list or deleted.
C7_ExemptIncludingE2eNeverListed ==
    /\ \A k \in 1..Len(obsolete_images) : ~ExemptWithE2e(obsolete_images[k].repository)
    /\ \A k \in 1..Len(images_in_use) : ~ExemptWithE2e(images_in_use[k].repository)
    /\ \A k \in 1..Len(DeleteCalls) : ~ExemptWithE2e(DeleteCalls[k].repository)

\* C7 amended: no image of a repository that starts with helm-charts or is
\* in the job-image set is in either list or deleted, and the manifests of
\* such a repository are not even requested.
C7_ExemptNeverListed ==
    /\ \A k \in 1..Len(obsolete_images) : ~ExemptHelmOrJob(obsolete_images[k].repository)
    /\ \A k \in 1..Len(images_in_use) : ~ExemptHelmOrJob(images_in_use[k].repository)
    /\ \A k \in 1..Len(DeleteCalls) : ~ExemptHelmOrJob(DeleteCalls[k].repository)
    /\ \A k \in 1..Len(events) :
           events[k].kind = "list_manifest_properties"
               => ~ExemptHelmOrJob(events[k].repository)

C7_Witness ==
    /\ \E k \in 1..Len(repos_seen) : ExemptHelmOrJob(repos_seen[k])
    /\ DeleteCalls # <<>>
    /\ pc = "exited"

\* C8: the two lists are disjoint; an image enters a list only from a
\* manifest that is dangling or strictly over-age by the full timestamp
\* difference; a tagged manifest whose age is at most max_image_age_days
\* enters neither list.
C8_ListsDisjointAndEligible ==
    /\ \A j \in 1..Len(obsolete_images) : \A k \in 1..Len(images_in_use) :
           /\ obsolete_images[j] # images_in_use[k]
           /\ ~(/\ obsolete_images[j].repository = images_in_use[k].repository
                /\ obsolete_images[j].digest = images_in_use[k].digest)
    /\ \A k \in 1..Len(obsolete_images) :
           NoTags(obsolete_images[k].tags) \/ obsolete_images[k].age >= max_image_age_days
    /\ \A k \in 1..Len(images_in_use) :
           NoTags(images_in_use[k].tags) \/ images_in_use[k].age >= max_image_age_days
    /\ JustScanned =>
           LET m == manifest[1]
               listed == \/ Listed(obsolete_images, repository, m.digest)
                         \/ Listed(images_in_use, repository, m.digest)
           IN  /\ listed => Eligible(m, max_image_age_days)
               /\ (~NoTags(m.tags) /\ ~OverAge(m.last_updated_on, max_image_age_days))
                      => ~listed

\* Both lists are filled, one of them by a tagged image that is over-age
\* only by the part of its age beyond the whole days.
C8_Witness ==
    /\ images_in_use # <<>>
    /\ \E k \in 1..Len(obsolete_images) :
           /\ ~NoTags(obsolete_images[k].tags)
           /\ obsolete_images[k].age = max_image_age_days

\* C9: delete calls are issued in the order of the obsolete list, none
\* skipped and none repeated (the k-th call is for the k-th image), the
\* report of each attempt carries the image's repository, tags, digest and
\* age and precedes the image's delete call, and a run that completes has
\* called delete for the whole list.
C9_DeleteInListOrderReportFirst ==
    /\ Len(DeleteCalls) <= Len(obsolete_images)
    /\ Len(Reports) <= Len(obsolete_images)
    /\ \A k \in 1..Len(DeleteCalls) :
           /\ DeleteCalls[k].repository = obsolete_images[k].repository
           /\ DeleteCalls[k].digest = obsolete_images[k].digest
    /\ \A k \in 1..Len(Reports) :
           /\ Reports[k].repository = obsolete_images[k].repository
           /\ Reports[k].tags = obsolete_images[k].tags
           /\ Reports[k].digest = obsolete_images[k].digest
           /\ Reports[k].age = obsolete_images[k].age
    /\ \A n \in 1..Len(events) :
           IsDeleteCall(events[n]) =>
               Len(SelectSeq(SubSeq(events, 1, n), IsReport))
                   >= Len(SelectSeq(SubSeq(events, 1, n), IsDeleteCall))
    /\ (pc = "exited" /\ exit_code = 0 /\ obsolete_images # <<>>)
           => Len(DeleteCalls) = Len(obsolete_images)

C9_Witness ==
    /\ pc = "exited"
    /\ Len(DeleteCalls) >= 2

\* C10: when the identifier synthesized for a manifest fails validation, the
\* run ends with an error instead of going on to the next manifest, and no
\* login, quota read or deletion (or report of one) is made in that run.
C10_InvalidSynthesizedIdAborts ==
    (/\ JustScanned
     /\ manifest[1].tags = None \/ OverAge(manifest[1].last_updated_on, max_image_age_days)
     /\ CanonicalId(repository, manifest[1].digest) \in MalformedImageIds)
    => /\ pc = "failed"
       /\ error = "image id not valid"
       /\ exit_code = -1
       /\ \A k \in 1..Len(events) :
              events[k].kind \in {"list_repository_names", "list_manifest_properties"}

\* The run aborted on an invalid synthesized identifier after it had
\* already classified an image as obsolete.
C10_Witness ==
    /\ pc = "failed"
    /\ error = "image id not valid"
    /\ obsolete_images # <<>>

====
